---- MODULE Spec2Model ----
(***************************************************************************)
(* Shell-command-to-image pipeline of nekro-plugin-sec-run.                *)
(*                                                                         *)
(* Two entry points are modelled side by side:                             *)
(*   "main"   run_command_to_pict                 (src/__init__.py)        *)
(*   "helper" execute_command_and_generate_image  (src/utils/helper.py)    *)
(*                                                                         *)
(* Text is a sequence of one-character strings.  A character outside       *)
(* ASCII is written as the token "U+XXXX" (one sequence element per        *)
(* character), and the undecodable byte as the token "xFF".                *)
(* Each action is one stretch of a coroutine between two awaits, or one    *)
(* step of the spawned process.                                            *)
(***************************************************************************)
EXTENDS Integers, Sequences, FiniteSets, TLC

(***************************************************************************)
(* Bounds of the model.                                                    *)
(***************************************************************************)
\* longest command drawn as an input
MaxCmdLen == 2

\* most bytes the process writes one at a time to each stream
MaxOut == 2

(***************************************************************************)
(* Text primitives (Python str methods used by the source).                *)
(***************************************************************************)
UpperCase ==
    <<"A", "B", "C", "D", "E", "F", "G", "H", "I", "J", "K", "L", "M",
      "N", "O", "P", "Q", "R", "S", "T", "U", "V", "W", "X", "Y", "Z">>

LowerCase ==
    <<"a", "b", "c", "d", "e", "f", "g", "h", "i", "j", "k", "l", "m",
      "n", "o", "p", "q", "r", "s", "t", "u", "v", "w", "x", "y", "z">>

\* str.lower() on one character
lower_char(c) ==
    IF \E i \in 1..26 : UpperCase[i] = c
    THEN LowerCase[CHOOSE i \in 1..26 : UpperCase[i] = c]
    ELSE c

\* str.lower()
lower(s) == [i \in 1..Len(s) |-> lower_char(s[i])]

\* characters str.strip(), str.rstrip() and str.split() treat as blank
Whitespace == {" ", "\n", "\t", "\r"}

RECURSIVE rstrip(_)
\* str.rstrip()
rstrip(s) ==
    IF s # <<>> /\ s[Len(s)] \in Whitespace
    THEN rstrip(SubSeq(s, 1, Len(s) - 1))
    ELSE s

RECURSIVE lstrip(_)
\* str.lstrip()
lstrip(s) ==
    IF s # <<>> /\ s[1] \in Whitespace THEN lstrip(Tail(s)) ELSE s

\* str.strip()
strip(s) == lstrip(rstrip(s))

\* the Python test  p in s  on two strings
In(p, s) ==
    \E i \in 0..(Len(s) - Len(p)) : SubSeq(s, i + 1, i + Len(p)) = p

\* str.endswith
endswith(s, suffix) ==
    /\ Len(s) >= Len(suffix)
    /\ SubSeq(s, Len(s) - Len(suffix) + 1, Len(s)) = suffix

\* str.startswith
startswith(s, prefix) ==
    /\ Len(s) >= Len(prefix)
    /\ SubSeq(s, 1, Len(prefix)) = prefix

RECURSIVE split_newline(_)
\* str.split('\n'): always at least one piece, trailing empty piece kept
split_newline(s) ==
    IF \E i \in 1..Len(s) : s[i] = "\n"
    THEN LET i == CHOOSE k \in 1..Len(s) :
                      s[k] = "\n" /\ \A j \in 1..(k - 1) : s[j] # "\n"
         IN  <<SubSeq(s, 1, i - 1)>> \o split_newline(SubSeq(s, i + 1, Len(s)))
    ELSE <<s>>

\* str.splitlines() for the line boundary "\n": no piece for the empty
\* string, and no empty piece after a final line boundary
splitlines(s) ==
    IF s = <<>> THEN <<>>
    ELSE IF s[Len(s)] = "\n"
         THEN split_newline(SubSeq(s, 1, Len(s) - 1))
         ELSE split_newline(s)

RECURSIVE split(_)
\* str.split(): the words between runs of blanks
split(s) ==
    LET t == lstrip(s)
    IN  IF t = <<>> THEN <<>>
        ELSE IF \E i \in 1..Len(t) : t[i] \in Whitespace
             THEN LET i == CHOOSE k \in 1..Len(t) :
                               /\ t[k] \in Whitespace
                               /\ \A j \in 1..(k - 1) : t[j] \notin Whitespace
                  IN  <<SubSeq(t, 1, i - 1)>> \o split(SubSeq(t, i, Len(t)))
             ELSE <<t>>

RECURSIVE join(_, _)
\* sep.join(parts)
join(sep, parts) ==
    IF parts = <<>> THEN <<>>
    ELSE IF Len(parts) = 1 THEN parts[1]
         ELSE parts[1] \o sep \o join(sep, Tail(parts))

Digits == <<"0", "1", "2", "3", "4", "5", "6", "7", "8", "9">>

RECURSIVE str_nat(_)
\* decimal digits of a natural number
str_nat(n) ==
    IF n < 10 THEN <<Digits[n + 1]>>
    ELSE str_nat(n \div 10) \o <<Digits[(n % 10) + 1]>>

\* str(n) as the f-strings format an int
str(n) == IF n < 0 THEN <<"-">> \o str_nat(0 - n) ELSE str_nat(n)

\* bytes.decode(errors="replace"): an undecodable byte becomes U+FFFD
decode(bytes) ==
    [i \in 1..Len(bytes) |-> IF bytes[i] = "xFF" THEN "U+FFFD" ELSE bytes[i]]

\* largest element of a non-empty set of integers (Python max)
Max(S) == CHOOSE x \in S : \A y \in S : y <= x

\* Python min of two integers
Min(a, b) == IF a <= b THEN a ELSE b

RECURSIVE Repeat(_, _)
\* s * n
Repeat(s, n) == IF n <= 0 THEN <<>> ELSE s \o Repeat(s, n - 1)

(***************************************************************************)
(* Configuration and fixed texts.                                          *)
(***************************************************************************)
\* SecRunConfig.COMMAND_TIMEOUT default, and max_timeout default
COMMAND_TIMEOUT == 30

\* prompt of run_command_to_pict
PROMPT == <<"~", "U+276F", " ">>

\* the value a command argument has when the caller passes something that
\* is not a str (its .lower() raises AttributeError)
NotAString == <<"<not-a-str>">>

\* text of the exception objects the faults carry
ExcText == <<"b", "o", "o", "m">>

\* marks "no exception was raised"
NoExc == <<"<no-exception>">>

(***************************************************************************)
(* Admission filter.                                                       *)
(***************************************************************************)
\* _contains_forbidden_pattern(command, patterns)
contains_forbidden_pattern(cmd, patterns) ==
    LET lowered == lower(cmd)
    IN  \E k \in 1..Len(patterns) : In(lower(patterns[k]), lowered)

\* the loop of execute_command_and_generate_image: index of the first
\* pattern found in command.lower().strip(), 0 when the loop falls through
first_forbidden_pattern(cmd, patterns) ==
    LET command_lower == strip(lower(cmd))
        hits == {k \in 1..Len(patterns) : In(patterns[k], command_lower)}
    IN  IF hits = {} THEN 0 ELSE CHOOSE k \in hits : \A j \in hits : k <= j

(***************************************************************************)
(* Messages of run_command_to_pict.                                        *)
(***************************************************************************)
\* "Command contains forbidden patterns and was blocked."
warning_msg ==
    <<"C", "o", "m", "m", "a", "n", "d", " ", "c", "o", "n", "t", "a", "i",
      "n", "s", " ", "f", "o", "r", "b", "i", "d", "d", "e", "n", " ", "p",
      "a", "t", "t", "e", "r", "n", "s", " ", "a", "n", "d", " ", "w", "a",
      "s", " ", "b", "l", "o", "c", "k", "e", "d", ".">>

\* f"Error checking command: {exc}"
error_checking_msg(exc) ==
    <<"E", "r", "r", "o", "r", " ", "c", "h", "e", "c", "k", "i", "n", "g",
      " ", "c", "o", "m", "m", "a", "n", "d", ":", " ">>
    \o exc

\* f"Command timed out after {config.COMMAND_TIMEOUT} seconds."
timeout_msg ==
    <<"C", "o", "m", "m", "a", "n", "d", " ", "t", "i", "m", "e", "d", " ",
      "o", "u", "t", " ", "a", "f", "t", "e", "r", " ">>
    \o str(COMMAND_TIMEOUT) \o <<" ", "s", "e", "c", "o", "n", "d", "s", ".">>

\* f"OS error: {exc}"
os_error_msg(exc) == <<"O", "S", " ", "e", "r", "r", "o", "r", ":", " ">> \o exc

\* f"Error: {exc}"
unexpected_error_msg(exc) == <<"E", "r", "r", "o", "r", ":", " ">> \o exc

\* f"Image generation error: {exc}"
image_generation_error_msg(exc) ==
    <<"I", "m", "a", "g", "e", " ", "g", "e", "n", "e", "r", "a", "t", "i",
      "o", "n", " ", "e", "r", "r", "o", "r", ":", " ">>
    \o exc

(***************************************************************************)
(* Messages of execute_command_and_generate_image and its image helpers.   *)
(***************************************************************************)
\* f"安全检查失败: 命令包含危险操作 '{pattern}'"
security_check_msg(pattern) ==
    <<"U+5B89", "U+5168", "U+68C0", "U+67E5", "U+5931", "U+8D25", ":", " ",
      "U+547D", "U+4EE4", "U+5305", "U+542B", "U+5371", "U+9669", "U+64CD",
      "U+4F5C", " ", "'">>
    \o pattern \o <<"'">>

\* f"命令执行超时 ({max_timeout}秒)"
helper_timeout_msg ==
    <<"U+547D", "U+4EE4", "U+6267", "U+884C", "U+8D85", "U+65F6", " ", "(">>
    \o str(COMMAND_TIMEOUT) \o <<"U+79D2", ")">>

\* f"命令执行失败: {str(e)}"
exec_failed_msg(exc) ==
    <<"U+547D", "U+4EE4", "U+6267", "U+884C", "U+5931", "U+8D25", ":", " ">>
    \o exc

\* f"图片生成失败: {str(e)}"
render_failed_msg(exc) ==
    <<"U+56FE", "U+7247", "U+751F", "U+6210", "U+5931", "U+8D25", ":", " ">>
    \o exc

\* f"未知错误: {str(e)}"
unknown_error_msg(exc) ==
    <<"U+672A", "U+77E5", "U+9519", "U+8BEF", ":", " ">> \o exc

\* "\n[错误输出]:\n" written before the stderr text
stderr_label ==
    <<"\n", "[", "U+9519", "U+8BEF", "U+8F93", "U+51FA", "]", ":", "\n">>

\* "\n[退出码]: " written before the return code
returncode_label ==
    <<"\n", "[", "U+9000", "U+51FA", "U+7801", "]", ":", " ">>

(***************************************************************************)
(* Transcript composition.                                                 *)
(***************************************************************************)
\* step 3 with the two output blocks appended in the other order
combined_text_stderr_first(cmd, stdout, stderr) ==
    LET output_parts ==
            <<PROMPT \o cmd>>
            \o (IF stderr # <<>> THEN <<rstrip(stderr)>> ELSE <<>>)
            \o (IF stdout # <<>> THEN <<rstrip(stdout)>> ELSE <<>>)
    IN  join(<<"\n">>, output_parts)

\* step 3 of run_command_to_pict
combined_text(cmd, stdout, stderr) ==
    LET output_parts ==
            <<PROMPT \o cmd>>
            \o (IF stdout # <<>> THEN <<rstrip(stdout)>> ELSE <<>>)
            \o (IF stderr # <<>> THEN <<rstrip(stderr)>> ELSE <<>>)
    IN  join(<<"\n">>, output_parts)

\* the prompt of execute_command_and_generate_image from the PS1 value
prompt_of(ps1env) ==
    IF endswith(ps1env, <<" ">>) THEN ps1env ELSE ps1env \o <<" ">>

\* full_output of execute_command_and_generate_image
full_output(ps1, cmd, stdout_text, stderr_text, rc) ==
    ps1 \o cmd \o <<"\n">>
    \o (IF stdout_text # <<>> THEN stdout_text ELSE <<>>)
    \o (IF stderr_text # <<>> THEN stderr_label \o stderr_text ELSE <<>>)
    \o (IF rc # 0 THEN returncode_label \o str(rc) ELSE <<>>)

(***************************************************************************)
(* Rendering.                                                              *)
(***************************************************************************)
\* a raster: the lines drawn and the size given to Image.new
NoImage == [lines |-> <<>>, width |-> 0, height |-> 0]

\* the fonts ImageFont can hand to _generate_image_data_url: the TrueType
\* DejaVuSansMono.ttf, or load_default() when that raises; a font is its
\* advance width and its height in pixels
Fonts ==
    { [char_width |-> 7, char_height |-> 14],
      [char_width |-> 6, char_height |-> 11] }

\* font.getsize(line)
getsize(font, line) == <<Len(line) * font.char_width, font.char_height>>

\* the raster _generate_image_data_url draws
data_url_image(text, font) ==
    LET lines == IF splitlines(text) = <<>> THEN << <<>> >> ELSE splitlines(text)
        max_line_width ==
            Max({getsize(font, lines[i])[1] : i \in 1..Len(lines)})
        line_height == getsize(font, <<"A", "y">>)[2] + 4
        padding == 10
        img_width == max_line_width + 2 * padding
        img_height == line_height * Len(lines) + 2 * padding
    IN  [lines |-> lines, width |-> img_width, height |-> img_height]

\* what Execute hands back: a data URL (kind "data_url", with its media
\* type and what its payload decodes to) or a file path (kind "path")
NoResult ==
    [kind |-> "none", mime |-> "", image |-> NoImage, text |-> <<>>,
     path |-> ""]

\* _generate_image_data_url(text, font_size): exc is the exception raised
\* inside its try block, NoExc when none is
generate_image_data_url(text, font, exc) ==
    IF exc = NoExc
    THEN [kind |-> "data_url", mime |-> "image/png",
          image |-> data_url_image(text, font), text |-> <<>>, path |-> ""]
    ELSE [kind |-> "data_url", mime |-> "text/plain", image |-> NoImage,
          text |-> image_generation_error_msg(exc), path |-> ""]

\* the n <= 400 for which the double n * (12 * 0.6) lies just below the
\* integer 36n/5, so that int() yields one less (12 * 0.6 is the double
\* 7.199999999999999)
FloatShort ==
    { 15, 25, 30, 35, 45, 50, 55, 60, 65, 70, 85, 90, 95, 100, 105, 110,
      115, 120, 125, 130, 135, 140, 165, 170, 175, 180, 185, 190, 195, 200,
      205, 210, 215, 220, 225, 230, 235, 240, 245, 250, 255, 260, 265, 270,
      275, 280, 325, 330, 335, 340, 345, 350, 355, 360, 365, 370, 375, 380,
      385, 390, 395, 400 }

\* int(max_line_length * char_width) with char_width = font_size * 0.6
int_times_char_width(n) ==
    IF n \in FloatShort THEN (36 * n) \div 5 - 1 ELSE (36 * n) \div 5

\* the raster with its height limited to that of the error canvas
command_output_image_clamped(output_text) ==
    LET line_height == 16
        padding == 20
        max_width == 1200
        lines == split_newline(output_text)
        max_line_length == Max({Len(lines[i]) : i \in 1..Len(lines)})
        text_width ==
            Min(int_times_char_width(max_line_length), max_width - 2 * padding)
        text_height == Len(lines) * line_height
        image_width == text_width + 2 * padding
        image_height == Min(text_height + 2 * padding, 200)
    IN  [lines |-> lines, width |-> image_width, height |-> image_height]

\* the raster _create_command_output_image draws
command_output_image(output_text) ==
    LET line_height == 16
        padding == 20
        max_width == 1200
        lines == split_newline(output_text)
        max_line_length == Max({Len(lines[i]) : i \in 1..Len(lines)})
        text_width ==
            Min(int_times_char_width(max_line_length), max_width - 2 * padding)
        text_height == Len(lines) * line_height
        image_width == text_width + 2 * padding
        image_height == text_height + 2 * padding
    IN  [lines |-> lines, width |-> image_width, height |-> image_height]

RECURSIVE wrap_words(_, _, _)
\* the word loop of _create_simple_error_image
wrap_words(words, lines, current_line) ==
    IF words = <<>>
    THEN IF current_line # <<>> THEN Append(lines, current_line) ELSE lines
    ELSE LET word == Head(words)
             test_line == IF current_line # <<>>
                          THEN current_line \o <<" ">> \o word
                          ELSE word
         IN  IF Len(test_line) * 10 < 600 - 40
             THEN wrap_words(Tail(words), lines, test_line)
             ELSE wrap_words(Tail(words),
                             IF current_line # <<>>
                             THEN Append(lines, current_line) ELSE lines,
                             word)

\* the raster _create_simple_error_image draws
simple_error_image(error_message) ==
    [lines |-> wrap_words(split(error_message), <<>>, <<>>),
     width |-> 600, height |-> 200]

(***************************************************************************)
(* Inputs.                                                                 *)
(***************************************************************************)
\* the two requests that may be in flight together
Reqs == {"A", "B"}

\* characters of the commands drawn as inputs
CmdChars == {"r", "R", " "}

\* all texts over the character set S of length lo..hi
Texts(S, lo, hi) == UNION {[1..n -> S] : n \in lo..hi}

\* commands a caller passes: every non-empty text up to MaxCmdLen, and a
\* non-str
Commands == Texts(CmdChars, 1, MaxCmdLen) \cup {NotAString}

\* configured values of SecRunConfig.FORBIDDEN_PATTERNS: a lower-case
\* pattern ending in a blank (as "rm "), a pattern configured in upper
\* case, and a list of two patterns
PatternLists ==
    { << <<"r", " ">> >>,
      << <<"R">> >>,
      << <<" ", " ">>, <<"r", "r">> >> }

\* values of os.environ.get('PS1', '$ ')
PS1Values == { <<"$", " ">>, <<"#">> }

\* bytes the process writes one at a time to stdout
OutBytes == {"a", "\n"}

\* bytes the process writes one at a time to stderr
ErrBytes == {"e", "xFF"}

\* length of the one long line the process may write to stdout
LongLineLen == 170

\* number of lines of the tall output the process may write to stdout
TallLines == 11

\* outputs the process may write to stdout in one piece
Chunks == { Repeat(<<"a">>, LongLineLen), Repeat(<<"a", "\n">>, TallLines) }

\* exit statuses of the process
ExitCodes == {0, 3}

\* files Execute writes under _ctx.fs.shared_path
Paths == {"command_output.png", "error_output.png"}

\* a returned file path
PathResult(p) ==
    [kind |-> "path", mime |-> "", image |-> NoImage, text |-> <<>>,
     path |-> p]

(***************************************************************************)
(* State.                                                                  *)
(***************************************************************************)
VARIABLES
    FORBIDDEN_PATTERNS, \* config.FORBIDDEN_PATTERNS
    PS1,                \* os.environ.get('PS1', '$ ')
    shared_path,        \* the files of _ctx.fs.shared_path: Paths -> raster
    entry,              \* entry[r]: "main" or "helper", the function called
    command,            \* command[r]: the command argument
    pc,                 \* pc[r]: where the coroutine of r stands
    stage,              \* stage[r]: the branch the coroutine took
    spawns,             \* spawns[r]: calls of create_subprocess_shell
    process,            \* process[r]: the shell spawned for r
    child,              \* child[r]: a process the shell started
    returncode,         \* returncode[r]: process.returncode
    stdout_pipe,        \* stdout_pipe[r]: bytes written to stdout
    stderr_pipe,        \* stderr_pipe[r]: bytes written to stderr
    text,               \* text[r]: the text handed to the renderer
    image,              \* image[r]: the raster r rendered and saved
    result              \* result[r]: the value returned to the caller

vars ==
    <<FORBIDDEN_PATTERNS, PS1, shared_path, entry, command, pc, stage,
      spawns, process, child, returncode, stdout_pipe, stderr_pipe, text,
      image, result>>

config_vars == <<FORBIDDEN_PATTERNS, PS1, entry, command>>

process_vars == <<process, child, returncode, stdout_pipe, stderr_pipe>>

\* the state before any call: r in active is about to be called
InitWith(active, cmds) ==
    /\ FORBIDDEN_PATTERNS \in PatternLists
    /\ entry \in [Reqs -> {"main", "helper"}]
    /\ command \in [Reqs -> cmds \cup {<<>>}]
    /\ \A r \in active : command[r] \in cmds
    /\ \A r \in Reqs \ active : entry[r] = "main" /\ command[r] = <<>>
    \* only execute_command_and_generate_image reads PS1
    /\ PS1 \in IF \E r \in active : entry[r] = "helper"
               THEN PS1Values ELSE {<<"$", " ">>}
    /\ shared_path = [p \in Paths |-> NoImage]
    /\ pc = [r \in Reqs |-> IF r \in active THEN "start" ELSE "idle"]
    /\ stage = [r \in Reqs |-> "START"]
    /\ spawns = [r \in Reqs |-> 0]
    /\ process = [r \in Reqs |-> "none"]
    /\ child = [r \in Reqs |-> "none"]
    /\ returncode = [r \in Reqs |-> 0]
    /\ stdout_pipe = [r \in Reqs |-> <<>>]
    /\ stderr_pipe = [r \in Reqs |-> <<>>]
    /\ text = [r \in Reqs |-> <<>>]
    /\ image = [r \in Reqs |-> NoImage]
    /\ result = [r \in Reqs |-> NoResult]

\* one request, any command
Init == InitWith({"A"}, Commands)

(***************************************************************************)
(* Returning to the caller.                                                *)
(***************************************************************************)
\* the coroutine of r returns res, having rendered img from txt
Return(r, res, img, txt, st) ==
    /\ result' = [result EXCEPT ![r] = res]
    /\ image' = [image EXCEPT ![r] = img]
    /\ text' = [text EXCEPT ![r] = txt]
    /\ stage' = [stage EXCEPT ![r] = st]
    /\ pc' = [pc EXCEPT ![r] = "returned"]

\* return _generate_image_data_url(txt, config.FONT_SIZE)
return_data_url(r, txt, st) ==
    /\ \E font \in Fonts, exc \in {NoExc, ExcText} :
          LET res == generate_image_data_url(txt, font, exc)
          IN  Return(r, res, res.image, txt, st)
    /\ UNCHANGED shared_path

\* _create_simple_error_image(error_message) when nothing raises
create_simple_error_image(r, error_message, txt, st) ==
    /\ shared_path' = [shared_path EXCEPT
                          !["error_output.png"] =
                              simple_error_image(error_message)]
    /\ Return(r, PathResult("error_output.png"),
              simple_error_image(error_message), txt, st)

\* return await _create_error_image(error_message)
create_error_image(r, error_message, txt, st) ==
    \E exc \in {NoExc, ExcText} :
        IF exc = NoExc
        THEN create_simple_error_image(r, error_message, txt, st)
        ELSE /\ UNCHANGED shared_path
             /\ Return(r, PathResult(""), NoImage, txt, st)

\* return await _create_command_output_image(output_text), inside the
\* outer try of execute_command_and_generate_image; fails is the number
\* of image constructions in a row that raise
create_command_output_image(r, output_text, st) ==
    \E fails \in 0..3 :
        CASE fails = 0 ->
               /\ shared_path' = [shared_path EXCEPT
                                     !["command_output.png"] =
                                         command_output_image(output_text)]
               /\ Return(r, PathResult("command_output.png"),
                         command_output_image(output_text), output_text, st)
          [] fails = 1 ->
               create_simple_error_image(r, render_failed_msg(ExcText),
                                         output_text, st)
          [] fails = 2 ->
               create_simple_error_image(r, unknown_error_msg(ExcText),
                                         output_text, st)
          [] OTHER ->
               /\ UNCHANGED shared_path
               /\ Return(r, PathResult(""), NoImage, output_text, st)

(***************************************************************************)
(* run_command_to_pict (src/__init__.py).                                  *)
(***************************************************************************)
\* step 1: validate the command against the forbidden patterns
run_command_to_pict(r) ==
    /\ pc[r] = "start"
    /\ entry[r] = "main"
    /\ IF command[r] = NotAString
       THEN return_data_url(r, error_checking_msg(ExcText), "INVALID")
       ELSE IF contains_forbidden_pattern(command[r], FORBIDDEN_PATTERNS)
            THEN return_data_url(r, warning_msg, "BLOCKED")
            ELSE /\ pc' = [pc EXCEPT ![r] = "spawning"]
                 /\ stage' = [stage EXCEPT ![r] = "EXECUTING"]
                 /\ UNCHANGED <<shared_path, text, image, result>>
    /\ UNCHANGED <<config_vars, spawns, process_vars>>

\* asyncio.create_subprocess_shell returns a process (either entry point);
\* the shell may start a process of its own
create_subprocess_shell(r) ==
    /\ pc[r] = "spawning"
    /\ spawns' = [spawns EXCEPT ![r] = @ + 1]
    /\ process' = [process EXCEPT ![r] = "running"]
    /\ \E c \in {"none", "running"} : child' = [child EXCEPT ![r] = c]
    /\ pc' = [pc EXCEPT ![r] = "communicating"]
    /\ UNCHANGED <<config_vars, shared_path, stage, returncode, stdout_pipe,
                   stderr_pipe, text, image, result>>

\* except OSError with one more attempt at the spawn before giving up
run_command_to_pict_OSError_retry(r) ==
    /\ pc[r] = "spawning"
    /\ entry[r] = "main"
    /\ spawns' = [spawns EXCEPT ![r] = @ + 1]
    /\ IF spawns[r] < 1
       THEN UNCHANGED <<shared_path, pc, stage, text, image, result>>
       ELSE return_data_url(r, os_error_msg(ExcText), "SPAWN_FAILED")
    /\ UNCHANGED <<config_vars, process_vars>>

\* create_subprocess_shell raises OSError: except OSError
run_command_to_pict_OSError(r) ==
    /\ pc[r] = "spawning"
    /\ entry[r] = "main"
    /\ spawns' = [spawns EXCEPT ![r] = @ + 1]
    /\ return_data_url(r, os_error_msg(ExcText), "SPAWN_FAILED")
    /\ UNCHANGED <<config_vars, process_vars>>

\* wait_for raises asyncio.TimeoutError: _run_shell_command kills the
\* process and waits for it, run_command_to_pict reports the timeout
run_command_to_pict_TimeoutError(r) ==
    /\ pc[r] = "communicating"
    /\ entry[r] = "main"
    /\ process[r] = "running"
    /\ process' = [process EXCEPT ![r] = "killed"]
    /\ returncode' = [returncode EXCEPT ![r] = -9]
    /\ return_data_url(r, timeout_msg, "TIMED_OUT")
    /\ UNCHANGED <<config_vars, spawns, child, stdout_pipe, stderr_pipe>>

\* any other exception out of _run_shell_command, raised by the spawn or
\* while waiting: except Exception
run_command_to_pict_Exception(r) ==
    /\ entry[r] = "main"
    /\ \/ /\ pc[r] = "spawning"
          /\ spawns' = [spawns EXCEPT ![r] = @ + 1]
       \/ /\ pc[r] = "communicating"
          /\ UNCHANGED spawns
    /\ return_data_url(r, unexpected_error_msg(ExcText), "FAULT")
    /\ UNCHANGED <<config_vars, process_vars>>

\* communicate() returns: decode, steps 3 and 4
run_command_to_pict_render(r) ==
    /\ pc[r] = "communicating"
    /\ entry[r] = "main"
    /\ process[r] = "exited"
    /\ LET stdout == IF stdout_pipe[r] # <<>>
                     THEN decode(stdout_pipe[r]) ELSE <<>>
           stderr == IF stderr_pipe[r] # <<>>
                     THEN decode(stderr_pipe[r]) ELSE <<>>
       IN  return_data_url(r, combined_text(command[r], stdout, stderr),
                           "RUNNING_OK")
    /\ UNCHANGED <<config_vars, spawns, process_vars>>

(***************************************************************************)
(* execute_command_and_generate_image (src/utils/helper.py).               *)
(***************************************************************************)
\* the safety check at the head of the outer try
execute_command_and_generate_image(r) ==
    /\ pc[r] = "start"
    /\ entry[r] = "helper"
    /\ IF command[r] = NotAString
       THEN create_error_image(r, unknown_error_msg(ExcText),
                               unknown_error_msg(ExcText), "INVALID")
       ELSE LET k == first_forbidden_pattern(command[r], FORBIDDEN_PATTERNS)
            IN  IF k # 0
                THEN create_error_image(
                         r, security_check_msg(FORBIDDEN_PATTERNS[k]),
                         security_check_msg(FORBIDDEN_PATTERNS[k]), "BLOCKED")
                ELSE /\ pc' = [pc EXCEPT ![r] = "spawning"]
                     /\ stage' = [stage EXCEPT ![r] = "EXECUTING"]
                     /\ UNCHANGED <<shared_path, text, image, result>>
    /\ UNCHANGED <<config_vars, spawns, process_vars>>

\* wait_for raises asyncio.TimeoutError: except asyncio.TimeoutError
execute_command_TimeoutError(r) ==
    /\ pc[r] = "communicating"
    /\ entry[r] = "helper"
    /\ process[r] = "running"
    /\ create_error_image(r, helper_timeout_msg, helper_timeout_msg,
                          "TIMED_OUT")
    /\ UNCHANGED <<config_vars, spawns, process_vars>>

\* the spawn, the wait or the decoding raises: the inner except Exception
execute_command_Exception(r) ==
    /\ entry[r] = "helper"
    /\ \/ /\ pc[r] = "spawning"
          /\ spawns' = [spawns EXCEPT ![r] = @ + 1]
          /\ create_error_image(r, exec_failed_msg(ExcText),
                                exec_failed_msg(ExcText), "SPAWN_FAILED")
       \/ /\ pc[r] = "communicating"
          /\ UNCHANGED spawns
          /\ create_error_image(r, exec_failed_msg(ExcText),
                                exec_failed_msg(ExcText), "FAULT")
    /\ UNCHANGED <<config_vars, process_vars>>

\* communicate() returns: decode, compose full_output, render and save
execute_command_render(r) ==
    /\ pc[r] = "communicating"
    /\ entry[r] = "helper"
    /\ process[r] = "exited"
    /\ create_command_output_image(
           r,
           full_output(prompt_of(PS1), command[r], decode(stdout_pipe[r]),
                       decode(stderr_pipe[r]), returncode[r]),
           "RUNNING_OK")
    /\ UNCHANGED <<config_vars, spawns, process_vars>>

(***************************************************************************)
(* The spawned process.                                                    *)
(***************************************************************************)
\* the process writes one byte to its stdout
process_write_stdout(r) ==
    /\ pc[r] = "communicating"
    /\ process[r] = "running"
    /\ Len(stdout_pipe[r]) < MaxOut
    /\ \E b \in OutBytes :
          stdout_pipe' = [stdout_pipe EXCEPT ![r] = Append(@, b)]
    /\ UNCHANGED <<config_vars, shared_path, pc, stage, spawns, process,
                   child, returncode, stderr_pipe, text, image, result>>

\* the process writes a large output to its stdout at once
process_write_chunk(r) ==
    /\ pc[r] = "communicating"
    /\ process[r] = "running"
    /\ stdout_pipe[r] = <<>>
    /\ \E chunk \in Chunks :
          stdout_pipe' = [stdout_pipe EXCEPT ![r] = chunk]
    /\ UNCHANGED <<config_vars, shared_path, pc, stage, spawns, process,
                   child, returncode, stderr_pipe, text, image, result>>

\* the process writes one byte to its stderr
process_write_stderr(r) ==
    /\ pc[r] = "communicating"
    /\ process[r] = "running"
    /\ Len(stderr_pipe[r]) < MaxOut
    /\ \E b \in ErrBytes :
          stderr_pipe' = [stderr_pipe EXCEPT ![r] = Append(@, b)]
    /\ UNCHANGED <<config_vars, shared_path, pc, stage, spawns, process,
                   child, returncode, stdout_pipe, text, image, result>>

\* the process exits by itself while Execute waits for it
process_exit(r) ==
    /\ pc[r] = "communicating"
    /\ process[r] = "running"
    /\ process' = [process EXCEPT ![r] = "exited"]
    /\ \E rc \in ExitCodes : returncode' = [returncode EXCEPT ![r] = rc]
    /\ UNCHANGED <<config_vars, shared_path, pc, stage, spawns, child,
                   stdout_pipe, stderr_pipe, text, image, result>>

(***************************************************************************)
(* Specifications.                                                         *)
(***************************************************************************)
Next ==
    \E r \in Reqs :
        \/ run_command_to_pict(r)
        \/ create_subprocess_shell(r)
        \/ run_command_to_pict_OSError(r)
        \/ run_command_to_pict_TimeoutError(r)
        \/ run_command_to_pict_Exception(r)
        \/ run_command_to_pict_render(r)
        \/ execute_command_and_generate_image(r)
        \/ execute_command_TimeoutError(r)
        \/ execute_command_Exception(r)
        \/ execute_command_render(r)
        \/ process_write_stdout(r)
        \/ process_write_chunk(r)
        \/ process_write_stderr(r)
        \/ process_exit(r)

\* one request at a time
Spec == Init /\ [][Next]_vars

\* commands of the two concurrent requests
ConcCommands == { <<"r">>, <<" ">> }

\* two requests in flight together
InitConc == InitWith(Reqs, ConcCommands)

\* the steps of two requests whose processes write nothing
NextConc ==
    \E r \in Reqs :
        \/ run_command_to_pict(r)
        \/ create_subprocess_shell(r)
        \/ run_command_to_pict_OSError(r)
        \/ run_command_to_pict_TimeoutError(r)
        \/ run_command_to_pict_Exception(r)
        \/ run_command_to_pict_render(r)
        \/ execute_command_and_generate_image(r)
        \/ execute_command_TimeoutError(r)
        \/ execute_command_Exception(r)
        \/ execute_command_render(r)
        \/ process_exit(r)

\* two concurrent requests
SpecConc == InitConc /\ [][NextConc]_vars

(***************************************************************************)
(* Vocabulary of the properties.                                           *)
(***************************************************************************)
\* r has returned to its caller
Returned(r) == pc[r] = "returned"

\* the command of r is a str
IsStr(r) == command[r] # NotAString

\* some pattern, case ignored, occurs in cmd at some offset
IsForbidden(cmd, patterns) ==
    \E k \in 1..Len(patterns) :
        \E off \in 0..(Len(cmd) - Len(patterns[k])) :
            \A j \in 1..Len(patterns[k]) :
                lower_char(cmd[off + j]) = lower_char(patterns[k][j])

\* the message the caller sees when it opens what r returned: the lines
\* of the PNG, the payload of a text/plain URL, nothing for an empty path
Shown(r) ==
    IF result[r].kind = "data_url"
    THEN IF result[r].mime = "image/png"
         THEN join(<<"\n">>, result[r].image.lines)
         ELSE result[r].text
    ELSE IF result[r].path \in Paths
         THEN join(<<" ">>, image[r].lines)
         ELSE <<>>

\* the rejection messages of the two entry points
RejectionMessages ==
    {warning_msg}
    \cup {security_check_msg(FORBIDDEN_PATTERNS[k]) :
              k \in 1..Len(FORBIDDEN_PATTERNS)}

\* the diagnostics for a request that left the normal path at stage st
Diagnostics(st) ==
    CASE st = "BLOCKED" -> RejectionMessages
      [] st = "INVALID" ->
           {error_checking_msg(ExcText), unknown_error_msg(ExcText)}
      [] st = "SPAWN_FAILED" ->
           {os_error_msg(ExcText), exec_failed_msg(ExcText)}
      [] st = "TIMED_OUT" -> {timeout_msg, helper_timeout_msg}
      [] st = "FAULT" ->
           {unexpected_error_msg(ExcText), exec_failed_msg(ExcText)}
      [] OTHER -> {}

\* the diagnostics of a failed rendering
RenderDiagnostics ==
    {image_generation_error_msg(ExcText), render_failed_msg(ExcText),
     unknown_error_msg(ExcText)}

(***************************************************************************)
(* C1: a command that contains a forbidden pattern, case ignored, is       *)
(* never spawned, and its request returns the rejection message.           *)
(***************************************************************************)
C1_BlockedNeverSpawned ==
    \A r \in Reqs :
        (IsStr(r) /\ IsForbidden(command[r], FORBIDDEN_PATTERNS)) =>
            /\ spawns[r] = 0
            /\ process[r] = "none"
            /\ Returned(r) => text[r] \in RejectionMessages

(***************************************************************************)
(* C2: Execute always returns an artifact, and after a failure at any      *)
(* stage the artifact carries the diagnostic message of that stage (or of  *)
(* the rendering that failed).                                             *)
(***************************************************************************)
C2_AlwaysDiagnosticArtifact ==
    \A r \in Reqs :
        Returned(r) =>
            /\ result[r].kind \in {"data_url", "path"}
            /\ Shown(r) # <<>>
            /\ stage[r] # "RUNNING_OK" =>
                   \E d \in Diagnostics(stage[r]) \cup RenderDiagnostics :
                       split(Shown(r)) = split(d)

(***************************************************************************)
(* C3: when Execute has returned the timeout outcome, neither the process  *)
(* it spawned nor a child of that process is still running.                *)
(***************************************************************************)
C3_TimeoutKillsProcess ==
    \A r \in Reqs :
        (Returned(r) /\ stage[r] = "TIMED_OUT") =>
            /\ process[r] # "running"
            /\ child[r] # "running"

(***************************************************************************)
(* C4: for a command that contains no forbidden pattern, one Execute call  *)
(* spawns exactly once: never twice, and once by the time it returns.      *)
(***************************************************************************)
C4_ExactlyOneSpawn ==
    \A r \in Reqs :
        (IsStr(r) /\ ~IsForbidden(command[r], FORBIDDEN_PATTERNS)) =>
            /\ spawns[r] <= 1
            /\ pc[r] \in {"communicating", "returned"} => spawns[r] = 1
            /\ pc[r] \in {"start", "spawning"} => spawns[r] = 0

\* a request with an admissible command has returned after a timeout,
\* having spawned once
C4_Witness ==
    \E r \in Reqs :
        /\ Returned(r)
        /\ IsStr(r)
        /\ ~IsForbidden(command[r], FORBIDDEN_PATTERNS)
        /\ stage[r] = "TIMED_OUT"
        /\ spawns[r] = 1

(***************************************************************************)
(* C5: after a normal completion with exit code N # 0 the last line of     *)
(* the transcript is "exit code: N"; with exit code 0 there is no status   *)
(* line.                                                                   *)
(***************************************************************************)
C5_StatusLine ==
    \A r \in Reqs :
        (Returned(r) /\ stage[r] = "RUNNING_OK") =>
            LET lines == split_newline(text[r])
                status_prefix == <<"e", "x", "i", "t", " ", "c", "o", "d",
                                   "e", ":", " ">>
            IN  /\ returncode[r] # 0 =>
                       lines[Len(lines)] = status_prefix \o str(returncode[r])
                /\ returncode[r] = 0 =>
                       \A i \in 1..Len(lines) :
                           ~startswith(lines[i], status_prefix)

(***************************************************************************)
(* C6: what Execute returns is a data:image/png;base64 URL or the path of  *)
(* an existing PNG file, on every path.                                    *)
(***************************************************************************)
C6_AlwaysPng ==
    \A r \in Reqs :
        Returned(r) =>
            \/ /\ result[r].kind = "data_url"
               /\ result[r].mime = "image/png"
               /\ result[r].image # NoImage
            \/ /\ result[r].kind = "path"
               /\ result[r].path \in Paths
               /\ shared_path[result[r].path] # NoImage

(***************************************************************************)
(* C7: the path a request writes and returns is its own: whenever the      *)
(* caller of a request opens the path it was given, the file there holds   *)
(* the image of that request, wherever the writes of the other request     *)
(* fall.                                                                   *)
(***************************************************************************)
C7_NoClobber ==
    \A r \in Reqs :
        (Returned(r) /\ result[r].kind = "path" /\ result[r].path \in Paths) =>
            shared_path[result[r].path] = image[r]

(***************************************************************************)
(* C8: after an execution with non-empty stdout and stderr the transcript  *)
(* starts with the line prompt + command, and everything the process wrote *)
(* to stdout comes before everything it wrote to stderr.  (The process     *)
(* writes "a" to stdout only and "e" or an undecodable byte to stderr      *)
(* only, and no command contains them.)                                    *)
(***************************************************************************)
C8_StdoutBeforeStderr ==
    \A r \in Reqs :
        (/\ Returned(r)
         /\ stage[r] = "RUNNING_OK"
         /\ stdout_pipe[r] # <<>>
         /\ stderr_pipe[r] # <<>>) =>
            LET prompt == IF entry[r] = "main" THEN PROMPT ELSE prompt_of(PS1)
                first == prompt \o command[r]
            IN  /\ startswith(text[r], first \o <<"\n">>)
                /\ \A j \in (Len(first) + 1)..Len(text[r]) :
                       text[r][j] \in {"e", "U+FFFD"} =>
                           \A i \in j..Len(text[r]) : text[r][i] # "a"
                /\ \E i \in 1..Len(text[r]) : text[r][i] \in {"e", "U+FFFD"}

\* a request has returned a transcript holding output of both streams
C8_Witness ==
    \E r \in Reqs :
        /\ Returned(r)
        /\ stage[r] = "RUNNING_OK"
        /\ \E i \in 1..Len(stdout_pipe[r]) : stdout_pipe[r][i] = "a"
        /\ \E i \in 1..Len(stderr_pipe[r]) : stderr_pipe[r][i] = "e"
        /\ \E i, j \in 1..Len(text[r]) : text[r][i] = "a" /\ text[r][j] = "e"

(***************************************************************************)
(* C9: the admission check blocks a command exactly when some pattern,     *)
(* case ignored, is a substring of it.                                     *)
(***************************************************************************)
C9_FilterIsCaseInsensitiveSubstring ==
    \A r \in Reqs :
        (IsStr(r) /\ pc[r] \notin {"idle", "start"}) =>
            (stage[r] = "BLOCKED"
                 <=> IsForbidden(command[r], FORBIDDEN_PATTERNS))

NewlineCount(s) == Cardinality({i \in 1..Len(s) : s[i] = "\n"})

\* length of the longest line of a text
LongestLine(s) ==
    Max({Len(split_newline(s)[i]) : i \in 1..Len(split_newline(s))})

====
